---------------------------- MODULE Spec2Model ----------------------------
(***************************************************************************)
(* Model of go-olson-timezone (timezone_unix.go, darwin/linux build).      *)
(*                                                                         *)
(* Go strings are TLA+ strings (TLC evaluates Len, \o, SubSeq on them), a  *)
(* []string is a sequence of strings.  The filesystem a call sees is a     *)
(* record: the readable files and their content, the symbolic links and    *)
(* their targets, the real (non-link) entries and the working directory.   *)
(***************************************************************************)
EXTENDS Integers, Sequences, FiniteSets, TLC

VARIABLES
    tzenv,      \* value of the TZ environment variable ("" when unset)
    fsys,       \* the filesystem of this call
    zoneinfo,   \* the zone database root handed to resolveTimezones
    paths,      \* the file list handed to parseFromConfigFile
    tzlist,     \* the local slice "timezones" of Name / the argument of resolveTimezones
    filtered,   \* the local slice "filtered" of resolveTimezones when its loop is done
    lookups,    \* the candidates resolveTimezones looked up with realpath.Realpath
    probed,     \* the probes Name has run after the environment probe
    envres,     \* what parseEnv returned
    ret,        \* what the operation returned
    pc          \* position of the call

vars == <<tzenv, fsys, zoneinfo, paths, tzlist, filtered, lookups, probed, envres, ret, pc>>

(***************************************************************************)
(* Package strings / path/filepath, as far as the program uses them.       *)
(***************************************************************************)

\* strings.HasPrefix
HasPrefix(s, p) == Len(s) >= Len(p) /\ SubSeq(s, 1, Len(p)) = p

\* strings.HasSuffix
HasSuffix(s, p) == Len(s) >= Len(p) /\ SubSeq(s, Len(s) - Len(p) + 1, Len(s)) = p

\* the 1-based positions at which sub occurs in s
Occurrences(s, sub) ==
    {i \in 1..(Len(s) - Len(sub) + 1) : SubSeq(s, i, i + Len(sub) - 1) = sub}

\* strings.Index: the 0-based index of the first occurrence of sub in s, -1 if none
Index(s, sub) ==
    LET hits == Occurrences(s, sub) IN
    IF hits = {} THEN -1 ELSE (CHOOSE i \in hits : \A j \in hits : i <= j) - 1

\* strings.Contains
Contains(s, sub) == Occurrences(s, sub) # {}

RECURSIVE SplitAt(_, _, _, _)
\* the parts of s from position from on, cut at the occurrences hits of a
\* separator of length n, leftmost first, an occurrence inside the one before skipped
SplitAt(s, n, hits, from) ==
    IF hits = {} THEN <<SubSeq(s, from, Len(s))>>
    ELSE LET p == CHOOSE i \in hits : \A j \in hits : i <= j IN
         <<SubSeq(s, from, p - 1)>>
         \o SplitAt(s, n, {h \in hits : h >= p + n}, p + n)

\* strings.Split with a non-empty separator: never returns an empty slice
Split(s, sep) == SplitAt(s, Len(sep), Occurrences(s, sep), 1)

\* strings.SplitN(s, sep, 2)
SplitN2(s, sep) ==
    LET i == Index(s, sep) IN
    IF i = -1 THEN <<s>>
    ELSE <<SubSeq(s, 1, i), SubSeq(s, i + Len(sep) + 1, Len(s))>>

RECURSIVE Join(_, _)
\* strings.Join
Join(parts, sep) ==
    IF Len(parts) = 0 THEN ""
    ELSE IF Len(parts) = 1 THEN parts[1]
    ELSE parts[1] \o sep \o Join(Tail(parts), sep)

\* strings.ReplaceAll with a non-empty old
ReplaceAll(s, old, new) == Join(Split(s, old), new)

RECURSIVE TrimLeft(_, _)
TrimLeft(s, cutset) ==
    IF Len(s) > 0 /\ SubSeq(s, 1, 1) \in cutset
    THEN TrimLeft(SubSeq(s, 2, Len(s)), cutset) ELSE s

RECURSIVE TrimRight(_, _)
TrimRight(s, cutset) ==
    IF Len(s) > 0 /\ SubSeq(s, Len(s), Len(s)) \in cutset
    THEN TrimRight(SubSeq(s, 1, Len(s) - 1), cutset) ELSE s

\* strings.Trim; the cutset is the set of its characters
Trim(s, cutset) == TrimRight(TrimLeft(s, cutset), cutset)

\* the white space of unicode.IsSpace that a TLA+ string can hold
WhiteSpace == {" ", "\t", "\n", "\r", "\f"}

\* strings.TrimSpace
TrimSpace(s) == Trim(s, WhiteSpace)

\* filepath.IsAbs on unix
IsAbs(p) == HasPrefix(p, "/")

RECURSIVE CleanParts(_, _, _)
\* the element loop of filepath.Clean: drop "" and ".", let ".." remove the
\* element before it (at the root it is dropped, in a relative path it is kept)
CleanParts(parts, out, rooted) ==
    IF Len(parts) = 0 THEN out
    ELSE LET p == Head(parts) IN
         IF p = "" \/ p = "." THEN CleanParts(Tail(parts), out, rooted)
         ELSE IF p = ".." THEN
              IF Len(out) > 0 /\ out[Len(out)] # ".."
              THEN CleanParts(Tail(parts), SubSeq(out, 1, Len(out) - 1), rooted)
              ELSE IF rooted THEN CleanParts(Tail(parts), out, rooted)
              ELSE CleanParts(Tail(parts), Append(out, p), rooted)
         ELSE CleanParts(Tail(parts), Append(out, p), rooted)

\* filepath.Clean
Clean(p) ==
    LET rooted == IsAbs(p)
        body == Join(CleanParts(Split(p, "/"), <<>>, rooted), "/")
        res == (IF rooted THEN "/" ELSE "") \o body
    IN IF res = "" THEN "." ELSE res

\* filepath.Join of two elements: empty elements are ignored, the result is cleaned
FilepathJoin(a, b) ==
    IF a = "" /\ b = "" THEN ""
    ELSE IF a = "" THEN Clean(b)
    ELSE IF b = "" THEN Clean(a)
    ELSE Clean(a \o "/" \o b)

(***************************************************************************)
(* The filesystem.  fsys is a record                                       *)
(*   layout    : how the zone database is laid out on disk                 *)
(*   data      : readable regular files |-> their content                  *)
(*   localtime : what /etc/localtime is ([kind, target])                   *)
(***************************************************************************)

\* working directory of the process (relative paths are resolved against it)
Getwd == "/repo"

\* the entries of a zone database below base that are real files or directories
ZoneTreeReal(base) ==
    {base, base \o "/America", base \o "/America/Sao_Paulo",
     base \o "/America/Los_Angeles", base \o "/Africa", base \o "/Africa/Harare",
     base \o "/UTC", base \o "/Etc", base \o "/posix", base \o "/posix/America"}

\* the entries of a zone database below base that are symbolic links
ZoneTreeLinks(base) ==
    (base \o "/posix/America/Sao_Paulo" :> "../../America/Sao_Paulo")
    @@ (base \o "/Etc/UTC" :> "../UTC")
    @@ (base \o "/localtime" :> "/etc/localtime")

\* where the zone database of /usr/share/zoneinfo really lives in each layout
RealZoneinfo(layout) ==
    CASE layout = "plain" -> "/usr/share/zoneinfo"
      [] layout = "deeper" -> "/var/db/timezone/zoneinfo"
      [] layout = "shallower" -> "/zoneinfo"

\* every symbolic link of the filesystem: path |-> target
Links(fs) ==
    ZoneTreeLinks(RealZoneinfo(fs.layout))
    @@ ZoneTreeLinks("/repo/testdata/zoneinfo")
    @@ (IF fs.layout = "plain" THEN <<>>
        ELSE ("/usr/share/zoneinfo" :> RealZoneinfo(fs.layout)))
    @@ (IF fs.localtime.kind = "symlink"
        THEN ("/etc/localtime" :> fs.localtime.target) ELSE <<>>)

\* every real (non-link) entry of the filesystem
Real(fs) ==
    {"/usr", "/usr/share", "/var", "/var/db", "/var/db/timezone", "/etc",
     "/repo", "/repo/testdata"}
    \cup ZoneTreeReal(RealZoneinfo(fs.layout))
    \cup ZoneTreeReal("/repo/testdata/zoneinfo")
    \cup DOMAIN fs.data
    \cup (IF fs.localtime.kind = "file" THEN {"/etc/localtime"} ELSE {})

RealpathErr == [err |-> TRUE, path |-> ""]

RECURSIVE RealpathWalk(_, _, _, _, _)
\* realpath.Realpath's component loop over the links and real entries of the
\* filesystem: done is the resolved prefix, rest the components still to
\* resolve; a link's target replaces the link
RealpathWalk(links, real, done, rest, nlinks) ==
    IF Len(rest) = 0 THEN [err |-> FALSE, path |-> "/" \o Join(done, "/")]
    ELSE LET c == Head(rest) IN
         IF c = "" \/ c = "." THEN RealpathWalk(links, real, done, Tail(rest), nlinks)
         ELSE IF c = ".." THEN
              RealpathWalk(links, real,
                           IF Len(done) = 0 THEN done ELSE SubSeq(done, 1, Len(done) - 1),
                           Tail(rest), nlinks)
         ELSE LET cur == "/" \o Join(Append(done, c), "/") IN
              IF cur \in DOMAIN links THEN
                   IF nlinks >= 16 THEN RealpathErr
                   ELSE LET t == links[cur] IN
                        RealpathWalk(links, real, IF IsAbs(t) THEN <<>> ELSE done,
                                     Split(t, "/") \o Tail(rest), nlinks + 1)
              ELSE IF cur \in real THEN
                   RealpathWalk(links, real, Append(done, c), Tail(rest), nlinks)
              ELSE RealpathErr

\* realpath.Realpath: the absolute path with every symbolic link resolved, or an error
Realpath(fs, fpath) ==
    IF fpath = "" THEN RealpathErr
    ELSE LET abs == IF IsAbs(fpath) THEN fpath ELSE FilepathJoin(Getwd, fpath) IN
         RealpathWalk(Links(fs), Real(fs), <<>>, Split(abs, "/"), 0)

\* os.Stat succeeds (it follows links)
StatOk(fs, fp) == ~Realpath(fs, fp).err

\* os.ReadFile / os.Open succeed
Readable(fs, path) == path \in DOMAIN fs.data

(***************************************************************************)
(* The canonical timezone table (package variable timezones): its keys.    *)
(***************************************************************************)
timezones ==
    {"America/Sao_Paulo", "America/Los_Angeles", "Africa/Harare", "Etc/UTC", "UTC"}

(***************************************************************************)
(* timezone_unix.go                                                        *)
(***************************************************************************)

\* fileExists
fileExists(fs, fp) == StatOk(fs, fp)

\* parseEnv without the lookup of the raw value in the table (lines 54-56 left out)
parseEnv_NoDirectLookup(fs, tz) ==
    IF tz = "" THEN ""
    ELSE IF IsAbs(tz) /\ fileExists(fs, tz) THEN
         LET parts == Split(tz, "/")
             n == Len(parts)
             joined == Join(SubSeq(parts, n - 1, n), "/")
         IN IF joined \in timezones THEN joined
            ELSE IF parts[n] \in timezones THEN parts[n]
            ELSE ""
    ELSE ""

\* parseEnv trying the last component before the last two (lines 64-66 and 69-71 exchanged)
parseEnv_ShortFirst(fs, tz) ==
    IF tz = "" THEN ""
    ELSE IF tz \in timezones THEN tz
    ELSE IF IsAbs(tz) /\ fileExists(fs, tz) THEN
         LET parts == Split(tz, "/")
             n == Len(parts)
             joined == Join(SubSeq(parts, n - 1, n), "/")
         IN IF parts[n] \in timezones THEN parts[n]
            ELSE IF joined \in timezones THEN joined
            ELSE ""
    ELSE ""

\* parseEnv
parseEnv(fs, tz) ==
    IF tz = "" THEN ""
    ELSE IF tz \in timezones THEN tz
    ELSE IF IsAbs(tz) /\ fileExists(fs, tz) THEN
         LET parts == Split(tz, "/")
             n == Len(parts)
             joined == Join(SubSeq(parts, n - 1, n), "/")
         IN IF joined \in timezones THEN joined
            ELSE IF parts[n] \in timezones THEN parts[n]
            ELSE ""
    ELSE ""

\* the body of the loop over the lines without the cut at "#" (lines 99-101 left out)
parseConfigLine_NoComment(line) ==
    LET l1 == IF Contains(line, " ") THEN SplitN2(line, " ")[1] ELSE line
        l3 == TrimSpace(l1)
    IN IF l3 # "" THEN <<ReplaceAll(l3, " ", "_")>> ELSE <<>>

\* parseFromConfigFile, the body of the loop over the lines (lines 94-107):
\* the candidates one line adds
parseConfigLine(line) ==
    LET l1 == IF Contains(line, " ") THEN SplitN2(line, " ")[1] ELSE line
        l2 == IF Contains(l1, "#") THEN SplitN2(l1, "#")[1] ELSE l1
        l3 == TrimSpace(l2)
    IN IF l3 # "" THEN <<ReplaceAll(l3, " ", "_")>> ELSE <<>>

RECURSIVE parseConfigLines(_)
parseConfigLines(lines) ==
    IF Len(lines) = 0 THEN <<>>
    ELSE parseConfigLine(Head(lines)) \o parseConfigLines(Tail(lines))

\* parseFromConfigFile, the body of the loop over the files (lines 82-108):
\* the candidates one file adds
parseConfigData(fs, configfile) ==
    IF ~Readable(fs, configfile) THEN <<>>
    ELSE LET etctz == Trim(fs.data[configfile], {"/", " ", "\t", "\r", "\n"}) IN
         IF etctz = "" THEN <<>>
         ELSE parseConfigLines(Split(ReplaceAll(etctz, "\r\n", "\n"), "\n"))

RECURSIVE parseFromConfigFile(_, _)
\* parseFromConfigFile
parseFromConfigFile(fs, ps) ==
    IF Len(ps) = 0 THEN <<>>
    ELSE parseConfigData(fs, Head(ps)) \o parseFromConfigFile(fs, Tail(ps))

\* bufio.Scanner with ScanLines: the lines of a file, each without its "\n"
\* and without one trailing "\r"; no empty last line after a final "\n"
ScanLines(content) ==
    IF content = "" THEN <<>>
    ELSE LET raw == Split(content, "\n")
             kept == IF raw[Len(raw)] = "" THEN SubSeq(raw, 1, Len(raw) - 1) ELSE raw
         IN [i \in 1..Len(kept) |->
                IF HasSuffix(kept[i], "\r")
                THEN SubSeq(kept[i], 1, Len(kept[i]) - 1) ELSE kept[i]]

\* timezoneRegex.FindStringSubmatch(line): whether the line matches
\* ^\s*(TIMEZONE|ZONE)\s*=\s*\"(?P<tz>.*)\"$ and the group tz
timezoneRegex(line) ==
    LET ws == {" ", "\t", "\n", "\r", "\f"}
        l1 == TrimLeft(line, ws)
        key == IF HasPrefix(l1, "TIMEZONE") THEN "TIMEZONE"
               ELSE IF HasPrefix(l1, "ZONE") THEN "ZONE" ELSE ""
        l2 == TrimLeft(SubSeq(l1, Len(key) + 1, Len(l1)), ws)
        l3 == TrimLeft(SubSeq(l2, 2, Len(l2)), ws)
    IN IF key # "" /\ HasPrefix(l2, "=") /\ Len(l3) >= 2
          /\ HasPrefix(l3, "\"") /\ HasSuffix(l3, "\"")
       THEN [match |-> TRUE, tz |-> SubSeq(l3, 2, Len(l3) - 1)]
       ELSE [match |-> FALSE, tz |-> ""]

\* parseFromClock, the body of the loop over the lines (lines 131-147)
parseClockLine(line) ==
    LET m == timezoneRegex(line) IN
    IF ~m.match \/ m.tz = "" THEN <<>>
    ELSE <<ReplaceAll(m.tz, " ", "_")>>

RECURSIVE parseClockLines(_)
parseClockLines(lines) ==
    IF Len(lines) = 0 THEN <<>>
    ELSE parseClockLine(Head(lines)) \o parseClockLines(Tail(lines))

RECURSIVE parseFromClock(_, _)
\* parseFromClock
parseFromClock(fs, ps) ==
    IF Len(ps) = 0 THEN <<>>
    ELSE (IF Readable(fs, Head(ps))
          THEN parseClockLines(ScanLines(fs.data[Head(ps)])) ELSE <<>>)
         \o parseFromClock(fs, Tail(ps))

\* parseSymlink
parseSymlink(fs, path) ==
    IF path \notin DOMAIN Links(fs) THEN ""     \* Lstat fails, or not a link
    ELSE LET tz == Links(fs)[path]
             idx == Index(tz, "zoneinfo/")
         IN IF idx = -1 THEN ""
            ELSE ReplaceAll(SubSeq(tz, idx + 9 + 1, Len(tz)), " ", "_")

\* appendIfMissing without the search for an equal item (lines 225-229 left out)
appendIfMissing_Always(slice, s) == Append(slice, s)

\* appendIfMissing
appendIfMissing(slice, s) ==
    IF \E i \in 1..Len(slice) : slice[i] = s THEN slice ELSE Append(slice, s)

\* what a call returns: (name, nil), ("", errors.New(msg)), or a run-time panic
Return(name) == [kind |-> "return", name |-> name, failed |-> FALSE, msg |-> ""]
ReturnErr(msg) == [kind |-> "return", name |-> "", failed |-> TRUE, msg |-> msg]
Panic == [kind |-> "panic", name |-> "", failed |-> FALSE, msg |-> ""]

\* resolveTimezones, line 193: the depth of the root as it is written
rootDepth(zi) == Len(Split(zi, "/"))

\* resolveTimezones, line 202: the name of a resolved path; the slice
\* expression [depth:] panics when the path has fewer than depth segments
pathName(path, depth) ==
    LET parts == Split(path, "/") IN
    IF depth > Len(parts) THEN [panic |-> TRUE, name |-> ""]
    ELSE [panic |-> FALSE, name |-> Join(SubSeq(parts, depth + 1, Len(parts)), "/")]

RECURSIVE filterLoop_Break(_, _, _, _, _)
\* the loop over the candidates ending at the first candidate that does not
\* resolve (line 199 with break for continue)
filterLoop_Break(fs, tzs, zi, acc, k) ==
    IF Len(tzs) = 0 THEN [panic |-> FALSE, list |-> acc, looked |-> k]
    ELSE LET rp == Realpath(fs, FilepathJoin(zi, Head(tzs))) IN
         IF rp.err THEN [panic |-> FALSE, list |-> acc, looked |-> k + 1]
         ELSE LET n == pathName(rp.path, rootDepth(zi)) IN
              IF n.panic THEN [panic |-> TRUE, list |-> acc, looked |-> k + 1]
              ELSE filterLoop_Break(fs, Tail(tzs), zi, appendIfMissing(acc, n.name), k + 1)

RECURSIVE filterLoop(_, _, _, _, _)
\* resolveTimezones, lines 195-204: the loop over the candidates; acc is
\* filtered so far, k the number of candidates looked up so far
filterLoop(fs, tzs, zi, acc, k) ==
    IF Len(tzs) = 0 THEN [panic |-> FALSE, list |-> acc, looked |-> k]
    ELSE LET rp == Realpath(fs, FilepathJoin(zi, Head(tzs))) IN
         IF rp.err THEN filterLoop(fs, Tail(tzs), zi, acc, k + 1)
         ELSE LET n == pathName(rp.path, rootDepth(zi)) IN
              IF n.panic THEN [panic |-> TRUE, list |-> acc, looked |-> k + 1]
              ELSE filterLoop(fs, Tail(tzs), zi, appendIfMissing(acc, n.name), k + 1)

RECURSIVE messageLines(_)
messageLines(list) ==
    IF Len(list) = 0 THEN ""
    ELSE Head(list) \o "\n" \o messageLines(Tail(list))

\* resolveTimezones, lines 211-216: the text of the conflict error
conflictMessage(list) ==
    "multiple conflicting time zone configurations found:\n"
    \o messageLines(list)
    \o "Fix the configuration, or set the time zone in a TZ environment variable"

\* resolveTimezones reporting a conflict whenever not exactly one name is left
\* (line 210 testing len(filtered) != 1)
resolveTimezones_ErrUnlessOne(fs, tzs, zi) ==
    IF Len(tzs) = 0 THEN [ret |-> Return(""), filtered |-> <<>>, lookups |-> <<>>]
    ELSE IF Len(tzs) = 1
    THEN [ret |-> Return(tzs[1]), filtered |-> <<>>, lookups |-> <<>>]
    ELSE LET f == filterLoop(fs, tzs, zi, <<>>, 0) IN
         [ret |-> IF f.panic THEN Panic
                  ELSE IF Len(f.list) = 1 THEN Return(f.list[1])
                  ELSE ReturnErr(conflictMessage(f.list)),
          filtered |-> IF f.panic THEN <<>> ELSE f.list,
          lookups |-> SubSeq(tzs, 1, f.looked)]

\* resolveTimezones without the fast path for one candidate (lines 186-188 left out)
resolveTimezones_NoFastPath(fs, tzs, zi) ==
    IF Len(tzs) = 0 THEN [ret |-> Return(""), filtered |-> <<>>, lookups |-> <<>>]
    ELSE LET f == filterLoop(fs, tzs, zi, <<>>, 0) IN
         [ret |-> IF f.panic THEN Panic
                  ELSE IF Len(f.list) = 1 THEN Return(f.list[1])
                  ELSE IF Len(f.list) > 1 THEN ReturnErr(conflictMessage(f.list))
                  ELSE Return(""),
          filtered |-> IF f.panic THEN <<>> ELSE f.list,
          lookups |-> SubSeq(tzs, 1, f.looked)]

\* resolveTimezones: [ret: what it returns, filtered: its local slice when the
\* loop is done, lookups: the candidates it looked up on disk]
resolveTimezones(fs, tzs, zi) ==
    IF Len(tzs) = 0 THEN [ret |-> Return(""), filtered |-> <<>>, lookups |-> <<>>]
    ELSE IF Len(tzs) = 1
    THEN [ret |-> Return(tzs[1]), filtered |-> <<>>, lookups |-> <<>>]
    ELSE LET f == filterLoop(fs, tzs, zi, <<>>, 0) IN
         [ret |-> IF f.panic THEN Panic
                  ELSE IF Len(f.list) = 1 THEN Return(f.list[1])
                  ELSE IF Len(f.list) > 1 THEN ReturnErr(conflictMessage(f.list))
                  ELSE Return(""),
          filtered |-> IF f.panic THEN <<>> ELSE f.list,
          lookups |-> SubSeq(tzs, 1, f.looked)]

(***************************************************************************)
(* Bounds and the inputs the calls are made with.                          *)
(***************************************************************************)

\* longest candidate list handed to resolveTimezones on its own
MaxCands == 3

\* longest content of the first config file handed to parseFromConfigFile on its own
MaxLen == 4

\* marks a file that cannot be read (missing, or no permission)
Unreadable == "ENOENT"

FileWith(path, content) == IF content = Unreadable THEN <<>> ELSE (path :> content)

NoLocaltime == [kind |-> "missing", target |-> ""]
FileLocaltime == [kind |-> "file", target |-> ""]
LinkLocaltime(t) == [kind |-> "symlink", target |-> t]

Layouts == {"plain", "deeper", "shallower"}

\* values of TZ
EnvValues ==
    {"", "America/Sao_Paulo", "UTC", "Foo/Bar", "testdata/zoneinfo/UTC",
     "/usr/share/zoneinfo/America/Sao_Paulo", "/usr/share/zoneinfo/Etc/UTC",
     "/usr/share/zoneinfo/UTC", "/usr/share/zoneinfo/posix/America/Sao_Paulo",
     "/usr/share/zoneinfo/America", "/nonexistent/America/Sao_Paulo", "/etc/localtime"}

\* the filesystems Name is called in
NameWorlds ==
    {[layout |-> l,
      data |-> FileWith("/etc/timezone", a) @@ FileWith("/var/db/zoneinfo", b)
               @@ FileWith("/etc/sysconfig/clock", c) @@ FileWith("/etc/conf.d/clock", d),
      localtime |-> lt] :
        l \in Layouts,
        a \in {Unreadable, "America/Sao_Paulo\n", "posix/America/Sao_Paulo\n", "Foo/Bar\n", "\n"},
        b \in {Unreadable, "Africa/Harare some-hostname # comment\n"},
        c \in {Unreadable, "ZONE=\"America/Sao_Paulo\"\n", "# clock\nZONE=\"\"\nZONE=\"Mars/Olympus Mons\"\n"},
        d \in {Unreadable, "TIMEZONE = \"UTC\"\r\n"},
        lt \in {NoLocaltime, FileLocaltime,
                LinkLocaltime("/usr/share/zoneinfo/America/Sao_Paulo"),
                LinkLocaltime("/private/tz/current")}}

\* sequences over S of length at most n
SeqsUpTo(S, n) == UNION {[1..k -> S] : k \in 0..n}

\* the candidates resolveTimezones is called with on its own
CandPool ==
    {"America/Sao_Paulo", "posix/America/Sao_Paulo", "Africa/Harare", "UTC", "Foo/Bar"}

\* the zone database roots resolveTimezones is called with on its own
Roots == {"/usr/share/zoneinfo", "testdata/zoneinfo", ""}

ResolveWorlds == {[layout |-> l, data |-> <<>>, localtime |-> FileLocaltime] : l \in Layouts}

\* the characters of the config files parseFromConfigFile is called with on its own
Alphabet == {"a", "/", " ", "#", "\n", "\r", "\t"}

RECURSIVE Strings(_)
\* the strings over Alphabet of length at most n
Strings(n) ==
    IF n = 0 THEN {""}
    ELSE LET S == Strings(n - 1) IN S \cup {s \o c : s \in S, c \in Alphabet}

ConfigPaths == <<"/etc/timezone", "/var/db/zoneinfo">>

ConfigWorlds ==
    {[layout |-> "plain",
      data |-> FileWith("/etc/timezone", a) @@ FileWith("/var/db/zoneinfo", b),
      localtime |-> NoLocaltime] :
        a \in Strings(MaxLen) \cup {Unreadable}, b \in {Unreadable, "a/a\n"}}

NoRet == [kind |-> "none", name |-> "", failed |-> FALSE, msg |-> ""]

(***************************************************************************)
(* Name(), step by step.                                                   *)
(***************************************************************************)

Init ==
    /\ tzenv \in EnvValues
    /\ fsys \in NameWorlds
    /\ zoneinfo = "/usr/share/zoneinfo"
    /\ paths = <<>>
    /\ tzlist = <<>>
    /\ filtered = <<>>
    /\ lookups = <<>>
    /\ probed = {}
    /\ envres = ""
    /\ ret = NoRet
    /\ pc = "Name"

\* Name, lines 23-25: the environment probe, and the return when it finds a name
NameEnv ==
    /\ pc = "Name"
    /\ envres' = parseEnv(fsys, tzenv)
    /\ IF envres' # ""
       THEN ret' = Return(envres') /\ pc' = "done"
       ELSE ret' = ret /\ pc' = "config"
    /\ UNCHANGED <<tzenv, fsys, zoneinfo, paths, tzlist, filtered, lookups, probed>>

\* Name, lines 29-33
NameConfigFile ==
    /\ pc = "config"
    /\ tzlist' = tzlist \o parseFromConfigFile(fsys, <<"/etc/timezone", "/var/db/zoneinfo">>)
    /\ probed' = probed \cup {"parseFromConfigFile"}
    /\ pc' = "clock"
    /\ UNCHANGED <<tzenv, fsys, zoneinfo, paths, filtered, lookups, envres, ret>>

\* Name, lines 35-37
NameClock ==
    /\ pc = "clock"
    /\ tzlist' = tzlist \o parseFromClock(fsys, <<"/etc/sysconfig/clock", "/etc/conf.d/clock">>)
    /\ probed' = probed \cup {"parseFromClock"}
    /\ pc' = "symlink"
    /\ UNCHANGED <<tzenv, fsys, zoneinfo, paths, filtered, lookups, envres, ret>>

\* Name, lines 39-42
NameSymlink ==
    /\ pc = "symlink"
    /\ LET parsed == parseSymlink(fsys, "/etc/localtime") IN
       tzlist' = IF parsed # "" THEN Append(tzlist, parsed) ELSE tzlist
    /\ probed' = probed \cup {"parseSymlink"}
    /\ pc' = "resolve"
    /\ UNCHANGED <<tzenv, fsys, zoneinfo, paths, filtered, lookups, envres, ret>>

\* Name, line 44, and resolveTimezones called on its own
Resolve ==
    /\ pc = "resolve"
    /\ \E r \in {resolveTimezones(fsys, tzlist, zoneinfo)} :
       /\ ret' = r.ret
       /\ filtered' = r.filtered
       /\ lookups' = r.lookups
    /\ probed' = probed \cup {"resolveTimezones"}
    /\ pc' = "done"
    /\ UNCHANGED <<tzenv, fsys, zoneinfo, paths, tzlist, envres>>

Next == NameEnv \/ NameConfigFile \/ NameClock \/ NameSymlink \/ Resolve

Spec == Init /\ [][Next]_vars

(***************************************************************************)
(* resolveTimezones called on its own, with any candidates and any root.   *)
(***************************************************************************)

InitResolve ==
    /\ tzenv = ""
    /\ fsys \in ResolveWorlds
    /\ zoneinfo \in Roots
    /\ paths = <<>>
    /\ tzlist \in SeqsUpTo(CandPool, MaxCands)
    /\ filtered = <<>>
    /\ lookups = <<>>
    /\ probed = {}
    /\ envres = ""
    /\ ret = NoRet
    /\ pc = "resolve"

NextResolve == Resolve

SpecResolve == InitResolve /\ [][NextResolve]_vars

(***************************************************************************)
(* parseFromConfigFile called on its own, with any file content.           *)
(***************************************************************************)

InitConfig ==
    /\ tzenv = ""
    /\ fsys \in ConfigWorlds
    /\ zoneinfo = ""
    /\ paths = ConfigPaths
    /\ tzlist = <<>>
    /\ filtered = <<>>
    /\ lookups = <<>>
    /\ probed = {}
    /\ envres = ""
    /\ ret = NoRet
    /\ pc = "parse"

CallParseFromConfigFile ==
    /\ pc = "parse"
    /\ tzlist' = parseFromConfigFile(fsys, paths)
    /\ pc' = "done"
    /\ UNCHANGED <<tzenv, fsys, zoneinfo, paths, filtered, lookups, probed, envres, ret>>

NextConfig == CallParseFromConfigFile

SpecConfig == InitConfig /\ [][NextConfig]_vars

(***************************************************************************)
(* Definitions the properties are stated with.                             *)
(***************************************************************************)

\* the candidates the three file probes of Name collect from a filesystem
Collected(fs) ==
    parseFromConfigFile(fs, <<"/etc/timezone", "/var/db/zoneinfo">>)
    \o parseFromClock(fs, <<"/etc/sysconfig/clock", "/etc/conf.d/clock">>)
    \o (IF parseSymlink(fs, "/etc/localtime") # ""
        THEN <<parseSymlink(fs, "/etc/localtime")>> ELSE <<>>)

\* the positions of the candidates that resolve below the root
Resolvable(fs, tzs, zi) ==
    {i \in 1..Len(tzs) : ~Realpath(fs, FilepathJoin(zi, tzs[i])).err}

\* the real path of candidate i
RealOfCand(fs, tzs, zi, i) == Realpath(fs, FilepathJoin(zi, tzs[i])).path

\* s without its prefix p and the "/" after it
StripPrefix(s, p) == SubSeq(s, Len(p) + 2, Len(s))

\* the real path lies strictly below the real path of the root
BelowRoot(fs, zi, real) ==
    /\ zi # ""
    /\ ~Realpath(fs, zi).err
    /\ HasPrefix(real, Realpath(fs, zi).path \o "/")

\* the path of real relative to the real path of the root, "/"-separated
RelativeId(fs, zi, real) == StripPrefix(real, Realpath(fs, zi).path)

\* the part of s after its last "/" (s itself when it has none)
AfterLastSlash(s) ==
    LET hits == Occurrences(s, "/") IN
    IF hits = {} THEN s
    ELSE SubSeq(s, (CHOOSE i \in hits : \A j \in hits : j <= i) + 1, Len(s))

\* the part of s after its last but one "/" (s itself when it has at most one)
AfterLastButOneSlash(s) ==
    LET hits == Occurrences(s, "/") IN
    IF Cardinality(hits) < 2 THEN s
    ELSE LET last == CHOOSE i \in hits : \A j \in hits : j <= i
             rest == hits \ {last}
         IN SubSeq(s, (CHOOSE i \in rest : \A j \in rest : j <= i) + 1, Len(s))

\* the elements of seq at the positions keep, in their order
SelectAt(seq, keep) ==
    LET nth(k) == CHOOSE i \in keep : Cardinality({j \in keep : j < i}) = k - 1
    IN [k \in 1..Cardinality(keep) |-> seq[nth(k)]]

\* the elements of a sequence, each at its first occurrence only
FirstSeen(seq) ==
    SelectAt(seq, {i \in 1..Len(seq) : \A j \in 1..(i - 1) : seq[j] # seq[i]})

\* the names resolveTimezones recovers for the candidates that resolve, in
\* the order of the candidates (when no candidate makes it panic)
SurvivorNames(fs, tzs, zi) ==
    LET real == [i \in 1..Len(tzs) |-> Realpath(fs, FilepathJoin(zi, tzs[i]))] IN
    SelectAt([i \in 1..Len(tzs) |->
                 IF real[i].err THEN "" ELSE pathName(real[i].path, rootDepth(zi)).name],
             {i \in 1..Len(tzs) : ~real[i].err})

\* every candidate that resolves is an entry of the zone database below the root
AllBelowRoot(fs, tzs, zi) ==
    /\ Resolvable(fs, tzs, zi) # {}
    /\ \A i \in Resolvable(fs, tzs, zi) : BelowRoot(fs, zi, RealOfCand(fs, tzs, zi, i))

\* the exchanges of two neighbours of a sequence: they generate its permutations
Transpositions(seq) == {<<i, i + 1>> : i \in 1..(Len(seq) - 1)}

\* the elements of a sequence as a set
Range(seq) == {seq[i] : i \in 1..Len(seq)}

\* seq with the elements at i and j exchanged
Swap(seq, i, j) ==
    [k \in 1..Len(seq) |-> IF k = i THEN seq[j] ELSE IF k = j THEN seq[i] ELSE seq[k]]

(***************************************************************************)
(* Properties of Name (specification Spec).                                *)
(***************************************************************************)

C2_EnvShortCircuits ==
    tzenv \in timezones =>
        /\ pc \in {"Name", "done"}
        /\ probed = {} /\ tzlist = <<>> /\ lookups = <<>>
        /\ pc = "done" => ret = Return(tzenv)

\* Name has returned on a canonical TZ although the file sources conflict
C2_Witness ==
    /\ pc = "done"
    /\ tzenv \in timezones
    /\ ret = Return(tzenv)
    /\ resolveTimezones(fsys, Collected(fsys), "/usr/share/zoneinfo").ret.failed

C7_EnvFilePath ==
    (pc # "Name" /\ tzenv \notin timezones) =>
        IF tzenv # "" /\ SubSeq(tzenv, 1, 1) = "/" /\ StatOk(fsys, tzenv)
        THEN envres = IF AfterLastButOneSlash(tzenv) \in timezones
                      THEN AfterLastButOneSlash(tzenv)
                      ELSE IF AfterLastSlash(tzenv) \in timezones
                      THEN AfterLastSlash(tzenv)
                      ELSE ""
        ELSE /\ envres = ""
             /\ pc # "config" => "parseFromConfigFile" \in probed

\* parseEnv has taken the last two components of an existing absolute path
\* whose last component alone is a key as well
C7_Witness ==
    /\ pc = "done"
    /\ tzenv \notin timezones
    /\ StatOk(fsys, tzenv)
    /\ AfterLastSlash(tzenv) \in timezones
    /\ envres = AfterLastButOneSlash(tzenv)
    /\ envres # AfterLastSlash(tzenv)
    /\ ret = Return(envres)

(***************************************************************************)
(* Properties of resolveTimezones (specification SpecResolve).             *)
(***************************************************************************)

\* C3: with two or more candidates of which two or more distinct names are
\* left after resolution, resolveTimezones returns "" and an error whose
\* message is the header line, then every distinct name once, each followed
\* by a newline, in first-seen order, then the closing sentence.
C3_ConflictMessage ==
    (pc = "done" /\ Len(tzlist) >= 2 /\ ret.kind # "panic") =>
        \A names \in {FirstSeen(SurvivorNames(fsys, tzlist, zoneinfo))} :
            Len(names) >= 2 =>
                /\ ret.kind = "return" /\ ret.name = "" /\ ret.failed
                /\ HasPrefix(ret.msg, "multiple conflicting time zone configurations found:\n")
                /\ HasSuffix(ret.msg,
                       "\nFix the configuration, or set the time zone in a TZ environment variable")
                /\ Split(ret.msg, "\n") =
                       <<"multiple conflicting time zone configurations found:">>
                       \o names
                       \o <<"Fix the configuration, or set the time zone in a TZ environment variable">>

\* a conflict of two names out of three candidates, two of which are one zone
C3_Witness ==
    /\ pc = "done"
    /\ Len(tzlist) = 3
    /\ Len(SurvivorNames(fsys, tzlist, zoneinfo)) = 3
    /\ Len(filtered) = 2
    /\ ret.failed

\* C4: with two or more candidates of which all that resolve are one zone
\* (one real file of the zone database), resolveTimezones returns that one
\* name and a nil error, never a conflict.
C4_OneZoneIsReturned ==
    (/\ pc = "done" /\ Len(tzlist) >= 2
     /\ AllBelowRoot(fsys, tzlist, zoneinfo)
     /\ Cardinality({RealOfCand(fsys, tzlist, zoneinfo, i) :
                        i \in Resolvable(fsys, tzlist, zoneinfo)}) = 1)
    => /\ ret.kind = "return" /\ ~ret.failed
       /\ ret.name # ""
       /\ Range(filtered) = {ret.name}

\* C5: resolveTimezones returns ("", nil) for no candidate and (c, nil) for
\* the one candidate c, for every root, whether c exists below it or not,
\* without looking anything up on disk.
C5_NoneOrOneCandidate ==
    pc = "done" =>
        /\ Len(tzlist) = 0 => (ret = Return("") /\ lookups = <<>>)
        /\ Len(tzlist) = 1 => (ret = Return(tzlist[1]) /\ lookups = <<>> /\ filtered = <<>>)

\* one candidate that does not exist below the root was returned as it is
C5_Witness ==
    /\ pc = "done"
    /\ Len(tzlist) = 1
    /\ zoneinfo # ""
    /\ Resolvable(fsys, tzlist, zoneinfo) = {}
    /\ ret = Return(tzlist[1])

\* C8: with two or more candidates, the name recovered for every candidate
\* that resolves is its real path relative to the root, for every root, a
\* link or a relative path included.
C8_NameIsPathRelativeToRoot ==
    (pc = "done" /\ Len(tzlist) >= 2 /\ AllBelowRoot(fsys, tzlist, zoneinfo))
    => /\ ret.kind = "return"
       /\ Range(filtered) =
              {RelativeId(fsys, zoneinfo, RealOfCand(fsys, tzlist, zoneinfo, i)) :
                  i \in Resolvable(fsys, tzlist, zoneinfo)}

\* C9 as stated: a permutation of the candidates changes neither the name
\* nor the error nor its message.
C9_OrderChangesNothing ==
    pc = "done" =>
        \A t \in Transpositions(tzlist) :
            resolveTimezones(fsys, Swap(tzlist, t[1], t[2]), zoneinfo).ret = ret

\* C9 as amended: a permutation of the candidates changes neither the name
\* nor whether an error is returned (or the call panics); the messages of a
\* conflict hold the same lines, the names in the first-seen order of each list.
C9_OrderChangesOnlyTheListing ==
    pc = "done" =>
        \A t \in Transpositions(tzlist) :
            \A r \in {resolveTimezones(fsys, Swap(tzlist, t[1], t[2]), zoneinfo)} :
                /\ r.ret.kind = ret.kind
                /\ r.ret.name = ret.name
                /\ r.ret.failed = ret.failed
                /\ Range(r.filtered) = Range(filtered)
                /\ Len(r.filtered) = Len(filtered)
                /\ Range(Split(r.ret.msg, "\n")) = Range(Split(ret.msg, "\n"))

\* a conflict whose message changes when two candidates change places
C9_Witness ==
    /\ pc = "done"
    /\ ret.failed
    /\ \E t \in Transpositions(tzlist) :
           LET r == resolveTimezones(fsys, Swap(tzlist, t[1], t[2]), zoneinfo) IN
           r.ret.failed /\ r.ret.msg # ret.msg

(***************************************************************************)
(* Properties of parseFromConfigFile (specification SpecConfig).           *)
(***************************************************************************)

\* the characters of a string
Chars(s) == {SubSeq(s, i, i) : i \in 1..Len(s)}

\* the lines of a file: its content without the "/" and white space around
\* it, cut at every "\n", a "\r" right before the "\n" dropped
LinesOf(content) ==
    LET raw == Split(Trim(content, {"/", " ", "\t", "\r", "\n"}), "\n") IN
    [i \in 1..Len(raw) |->
        IF i < Len(raw) /\ HasSuffix(raw[i], "\r")
        THEN SubSeq(raw[i], 1, Len(raw[i]) - 1) ELSE raw[i]]

\* the text of a line before its first space and before its first "#",
\* without the white space around it
NameOfLine(line) ==
    LET cuts == Occurrences(line, " ") \cup Occurrences(line, "#")
        first == IF cuts = {} THEN Len(line) + 1
                 ELSE CHOOSE i \in cuts : \A j \in cuts : i <= j
    IN TrimSpace(SubSeq(line, 1, first - 1))

\* what a file adds: the names of its lines that have one, in their order
NamesOfFile(fs, path) ==
    IF path \notin DOMAIN fs.data THEN <<>>
    ELSE LET lines == LinesOf(fs.data[path])
             names == [i \in 1..Len(lines) |-> NameOfLine(lines[i])]
         IN SelectAt(names, {i \in 1..Len(names) : names[i] # ""})

\* C10 as stated: the candidates are, file after file and line after line,
\* the text before the line's first space and first "#", trimmed, where that
\* is not empty; every candidate is non-empty and holds no space, no "#" and
\* no other white space.
C10_OneCleanNamePerLine ==
    pc = "done" =>
        /\ tzlist = NamesOfFile(fsys, paths[1]) \o NamesOfFile(fsys, paths[2])
        /\ \A k \in 1..Len(tzlist) :
               tzlist[k] # "" /\ Chars(tzlist[k]) \cap (WhiteSpace \cup {"#"}) = {}

\* C10 as amended: the candidates are, file after file and line after line,
\* the text before the line's first space and first "#", trimmed, where that
\* is not empty; every candidate is non-empty, holds no space and no "#" and
\* neither starts nor ends with white space (a tab, a carriage return or a
\* form feed inside a name stays).
C10_OneTrimmedNamePerLine ==
    pc = "done" =>
        /\ tzlist = NamesOfFile(fsys, paths[1]) \o NamesOfFile(fsys, paths[2])
        /\ \A k \in 1..Len(tzlist) :
               /\ tzlist[k] # ""
               /\ Chars(tzlist[k]) \cap {" ", "#"} = {}
               /\ TrimSpace(tzlist[k]) = tzlist[k]

\* both files were read, the first holding a name, a host and a comment
C10_Witness ==
    /\ pc = "done"
    /\ paths[1] \in DOMAIN fsys.data
    /\ Contains(fsys.data[paths[1]], " #")
    /\ Len(tzlist) = 2
    /\ tzlist[2] = "a/a"

=============================================================================
